---- MODULE Spec2Model ----
(***************************************************************************)
(* EC2 details extractor (src/get-ec2-details-json.py).                    *)
(*                                                                         *)
(* One invocation of main(): parse the command line, resolve the name to   *)
(* instances (describe_instances), fetch the metadata of the attached EBS  *)
(* volumes (describe_volumes), merge it onto the instances, and either     *)
(* print a textual report or write a JSON file.  The two remote calls are  *)
(* the environment: their responses are chosen nondeterministically from   *)
(* small sets.  Python dicts are records/functions, lists are sequences,   *)
(* printed lines are the exact strings passed to print().                  *)
(***************************************************************************)
EXTENDS Integers, Sequences, FiniteSets, TLC

VARIABLES
    pc,              \* position of main(): "main", "resolve", "enrich", "returned", "done"
    args,            \* argparse namespace: server_name, region, output, human
    response,        \* outcome of ec2.describe_instances: [raised, Reservations]
    instances,       \* get_ec2_details' local list `instances` (line 80)
    all_volume_ids,  \* get_ec2_details' local list `all_volume_ids` (line 94)
    volCalls,        \* the VolumeIds argument of every describe_volumes call made
    volResponse,     \* outcome of the describe_volumes call: [called, raised, Volumes]
    volume_details,  \* get_ec2_details' local dict `volume_details` (line 101)
    result,          \* what get_ec2_details returned to main: [none, value]
    stdout,          \* every line printed, in order
    report,          \* the lines printed by format_ec2_details
    file,            \* the output file: [written, path, data]
    exception        \* the exception that left main uncaught, if any

vars == <<pc, args, response, instances, all_volume_ids, volCalls, volResponse,
          volume_details, result, stdout, report, file, exception>>

-----------------------------------------------------------------------------
(* Bounds and input sets *)

\* Most instances one describe_instances response holds.
MaxInstances == 2

\* Python's None for an absent optional command-line argument.
NoneValue == "None"

DefaultRegion == "ap-southeast-2"

\* Command lines: the three usages of the module docstring, an explicit
\* output file, and a name holding a path separator.
ArgSets ==
    { [server_name |-> "web-01", region |-> NoneValue,   output |-> NoneValue,  human |-> FALSE],
      [server_name |-> "web-01", region |-> NoneValue,   output |-> NoneValue,  human |-> TRUE],
      [server_name |-> "web-01", region |-> "us-east-1", output |-> NoneValue,  human |-> FALSE],
      [server_name |-> "db/01",  region |-> "us-east-1", output |-> "out.json", human |-> FALSE],
      [server_name |-> "db/01",  region |-> "",          output |-> NoneValue,  human |-> TRUE] }

VolIds == {"vol-A", "vol-B"}

\* A datetime object as boto3 returns it; its text is what str() gives.
DateTime(text) == [datetime |-> text]

\* str(x) of a datetime (the `default=str` of json.dumps / json.dump).
Str(x) == x.datetime

\* Python truthiness of an optional string argument: None and "" are false.
Truthy(s) == s /= NoneValue /\ s /= ""

EbsMapping(dev, vid) ==
    [DeviceName |-> dev, Ebs |-> [VolumeId |-> vid, Status |-> "attached"]]

StoreMapping(dev) == [DeviceName |-> dev, VirtualName |-> "ephemeral0"]

\* The BlockDeviceMappings lists an instance of a response may carry.
BlockDeviceLists ==
    { <<>>,
      <<EbsMapping("/dev/sda1", "vol-A")>>,
      <<EbsMapping("/dev/sda1", "vol-B")>>,
      <<StoreMapping("/dev/sdb")>>,
      <<EbsMapping("/dev/sda1", "vol-A"), StoreMapping("/dev/sdb")>>,
      <<EbsMapping("/dev/sda1", "vol-A"), EbsMapping("/dev/sdf", "vol-B")>> }

\* The k-th instance of a response.  Optional keys (Platform, PublicIpAddress,
\* PublicDnsName, KeyName) are present on odd-numbered instances only.
InstanceBase(k, name, bdms) ==
    [InstanceId |-> "i-" \o ToString(k),
     InstanceType |-> "t3.micro",
     State |-> [Name |-> "running"],
     LaunchTime |-> DateTime("2024-01-0" \o ToString(k) \o " 10:30:00+00:00"),
     Architecture |-> "x86_64",
     VpcId |-> "vpc-1",
     SubnetId |-> "subnet-1",
     PrivateIpAddress |-> "10.0.0." \o ToString(k),
     PrivateDnsName |-> "ip-10-0-0-" \o ToString(k) \o ".internal",
     SecurityGroups |-> <<[GroupName |-> "default", GroupId |-> "sg-1"]>>,
     Tags |-> <<[Key |-> "Name", Value |-> name]>>,
     BlockDeviceMappings |-> bdms,
     Placement |-> [AvailabilityZone |-> "ap-southeast-2a"]]

OptionalKeys(k) ==
    [Platform |-> "windows",
     PublicIpAddress |-> "54.0.0." \o ToString(k),
     PublicDnsName |-> "ec2-54-0-0-" \o ToString(k) \o ".compute.amazonaws.com",
     KeyName |-> "key-" \o ToString(k)]

\* dict union: the keys of b added to (or replacing those of) a.
Update(a, b) ==
    [f \in DOMAIN a \cup DOMAIN b |-> IF f \in DOMAIN b THEN b[f] ELSE a[f]]

Instance(k, name, bdms) ==
    IF k % 2 = 1 THEN Update(InstanceBase(k, name, bdms), OptionalKeys(k))
    ELSE InstanceBase(k, name, bdms)

\* The ways the API may group n instances into reservations: the sequences of
\* positive reservation sizes that sum to n.
Groupings[n \in 0..MaxInstances] ==
    IF n = 0 THEN {<<>>}
    ELSE UNION { { <<k>> \o g : g \in Groupings[n - k] } : k \in 1..n }

RECURSIVE SumTo(_, _)
SumTo(sizes, r) == IF r = 0 THEN 0 ELSE sizes[r] + SumTo(sizes, r - 1)

\* The Reservations of a response: reservation r holds sizes[r] instances,
\* numbered consecutively over the whole response; instance k has bdms[k].
Reservations(sizes, name, bdms) ==
    [r \in 1..Len(sizes) |->
        [ReservationId |-> "r-" \o ToString(r),
         Instances |-> [j \in 1..sizes[r] |->
             Instance(SumTo(sizes, r - 1) + j, name, bdms[SumTo(sizes, r - 1) + j])]]]

-----------------------------------------------------------------------------
(* get_ec2_details: resolve *)

\* Flatten with each reservation's instances put in front of those gathered.
RECURSIVE FlattenPrepending(_)
FlattenPrepending(reservations) ==
    IF reservations = <<>> THEN <<>>
    ELSE FlattenPrepending(Tail(reservations)) \o reservations[1].Instances

\* Lines 80-83: the instances of every reservation, appended in order.
RECURSIVE Flatten(_)
Flatten(reservations) ==
    IF reservations = <<>> THEN <<>>
    ELSE reservations[1].Instances \o Flatten(Tail(reservations))

NoResult == [none |-> TRUE, value |-> <<>>]

\* The not-found test left out.
NotFoundNever(flat) == FALSE

\* Line 85: `if not instances`
NotFound(flat) == flat = <<>>

Init ==
    /\ pc = "main"
    /\ args = [server_name |-> NoneValue, region |-> NoneValue,
               output |-> NoneValue, human |-> FALSE]
    /\ response = [raised |-> FALSE, Reservations |-> <<>>]
    /\ instances = <<>>
    /\ all_volume_ids = <<>>
    /\ volCalls = <<>>
    /\ volResponse = [called |-> FALSE, raised |-> FALSE, Volumes |-> <<>>]
    /\ volume_details = <<>>
    /\ result = NoResult
    /\ stdout = <<>>
    /\ report = <<>>
    /\ file = [written |-> FALSE, path |-> NoneValue, data |-> <<>>]
    /\ exception = NoneValue

\* main, lines 203-215: parse the command line and print the header.
MainStart ==
    /\ pc = "main"
    /\ \E a \in ArgSets :
        /\ args' = a
        /\ stdout' = stdout \o
              << "Searching for EC2 instance: " \o a.server_name,
                 IF Truthy(a.region) THEN "Region: " \o a.region
                 ELSE "Region: ap-southeast-2 (default)" >>
    /\ pc' = "resolve"
    /\ UNCHANGED <<exception, response, instances, all_volume_ids, volCalls, volResponse,
                   volume_details, result, report, file>>

\* get_ec2_details, lines 65-91: describe_instances answers; flatten; the
\* not-found return, or on to the enrichment.
DescribeInstances ==
    /\ pc = "resolve"
    /\ \E n \in 0..MaxInstances :
       \E sizes \in Groupings[n] :
       \E bdms \in [1..n -> BlockDeviceLists] :
         LET rs == Reservations(sizes, args.server_name, bdms)
             flat == Flatten(rs)
         IN /\ response' = [raised |-> FALSE, Reservations |-> rs]
            /\ instances' = flat
            /\ IF NotFound(flat)
               THEN /\ stdout' = Append(stdout,
                          "No EC2 instances found with name: " \o args.server_name)
                    /\ result' = NoResult
                    /\ pc' = "returned"
               ELSE /\ stdout' =
                          IF Len(flat) > 1
                          THEN stdout \o
                               << "Found " \o ToString(Len(flat))
                                      \o " instances with name: " \o args.server_name,
                                  "Showing details for all instances:" >>
                          ELSE stdout
                    /\ result' = result
                    /\ pc' = "enrich"
    /\ UNCHANGED <<exception, args, all_volume_ids, volCalls, volResponse, volume_details,
                   report, file>>

\* describe_instances raises and the failure is swallowed: the function goes
\* on with the empty list it has.
DescribeInstancesRaisesSwallowed ==
    /\ pc = "resolve"
    /\ response' = [raised |-> TRUE, Reservations |-> <<>>]
    /\ stdout' = Append(stdout, "Error retrieving EC2 details: RequestError")
    /\ pc' = "enrich"
    /\ UNCHANGED <<exception, args, instances, all_volume_ids, volCalls, volResponse,
                   volume_details, result, report, file>>

\* get_ec2_details, lines 65-78 and 114-116: describe_instances raises.
DescribeInstancesRaises ==
    /\ pc = "resolve"
    /\ response' = [raised |-> TRUE, Reservations |-> <<>>]
    /\ stdout' = Append(stdout, "Error retrieving EC2 details: RequestError")
    /\ result' = NoResult
    /\ pc' = "returned"
    /\ UNCHANGED <<exception, args, instances, all_volume_ids, volCalls, volResponse,
                   volume_details, report, file>>

-----------------------------------------------------------------------------
(* get_volume_details *)

\* dict.get(key, default)
Get(d, key, default) == IF key \in DOMAIN d THEN d[key] ELSE default

\* The keys get_volume_details reads with volume[...] (lines 39-48): a record
\* lacking one of them raises KeyError.
RequiredVolumeKeys ==
    {"VolumeId", "Size", "VolumeType", "State", "Encrypted", "AvailabilityZone",
     "CreateTime"}

Processable(volume) == RequiredVolumeKeys \subseteq DOMAIN volume

\* Lines 39-49: the entry stored for one volume of the response.
VolumeEntry(volume) ==
    [Size |-> volume.Size,
     VolumeType |-> volume.VolumeType,
     State |-> volume.State,
     Encrypted |-> volume.Encrypted,
     Iops |-> Get(volume, "Iops", "N/A"),
     Throughput |-> Get(volume, "Throughput", "N/A"),
     SnapshotId |-> Get(volume, "SnapshotId", "N/A"),
     AvailabilityZone |-> volume.AvailabilityZone,
     CreateTime |-> volume.CreateTime]

\* Lines 38-51: the loop over response['Volumes'].  The try block encloses the
\* whole loop, so the first record that raises ends it; what was stored before
\* stays in volume_details.
RECURSIVE VolumeLoop(_, _)
VolumeLoop(volumes, acc) ==
    IF volumes = <<>> THEN acc
    ELSE IF ~Processable(volumes[1]) THEN acc
    ELSE VolumeLoop(Tail(volumes),
                    Update(acc, volumes[1].VolumeId :> VolumeEntry(volumes[1])))

\* Lines 29-53: the mapping get_volume_details returns for volume_ids when
\* describe_volumes answers with (or raises as) resp.
get_volume_details(volume_ids, resp) ==
    IF volume_ids = <<>> THEN <<>>
    ELSE IF resp.raised THEN <<>>
    ELSE VolumeLoop(resp.Volumes, <<>>)

\* Line 51: whether the except branch prints its warning.
VolumeWarning(volume_ids, resp) ==
    /\ volume_ids /= <<>>
    /\ \/ resp.raised
       \/ \E i \in 1..Len(resp.Volumes) : ~Processable(resp.Volumes[i])

\* What describe_volumes may return for one volume.  Numbers are held as their
\* decimal text: the code only stores, prints and compares them with 'N/A'.
VolumeShapes == {"full", "bare", "unprocessable"}

VolumeBare(id) ==
    [VolumeId |-> id,
     Size |-> IF id = "vol-A" THEN "8" ELSE "100",
     VolumeType |-> IF id = "vol-A" THEN "gp3" ELSE "standard",
     State |-> "in-use",
     Encrypted |-> (id = "vol-A"),
     AvailabilityZone |-> "ap-southeast-2a",
     CreateTime |-> DateTime("2023-12-31 09:00:00+00:00")]

VolumeRecord(id, shape) ==
    CASE shape = "full" ->
           Update(VolumeBare(id),
                  [Iops |-> "3000", Throughput |-> "125", SnapshotId |-> "snap-1"])
      [] shape = "bare" -> VolumeBare(id)
      [] shape = "unprocessable" ->
           [f \in DOMAIN VolumeBare(id) \ {"Size"} |-> VolumeBare(id)[f]]

\* The Volumes lists describe_volumes may answer a request for ids with: any
\* of the requested volumes, each once, in any order.
VolumeLists(ids) ==
    LET S == {ids[i] : i \in 1..Len(ids)}
        picks == UNION { [1..m -> S \X VolumeShapes] : m \in 0..Cardinality(S) }
    IN { [i \in 1..Len(p) |-> VolumeRecord(p[i][1], p[i][2])] :
           p \in { q \in picks : \A i, j \in 1..Len(q) : q[i][1] = q[j][1] => i = j } }

-----------------------------------------------------------------------------
(* get_ec2_details: enrichment *)

\* Lines 96-98 for one instance: the volume ids of its Ebs mappings, in order.
RECURSIVE EbsVolumeIds(_)
EbsVolumeIds(bdms) ==
    IF bdms = <<>> THEN <<>>
    ELSE (IF "Ebs" \in DOMAIN bdms[1] THEN <<bdms[1].Ebs.VolumeId>> ELSE <<>>)
         \o EbsVolumeIds(Tail(bdms))

\* Lines 94-98: all_volume_ids, appended instance by instance.
RECURSIVE CollectVolumeIds(_)
CollectVolumeIds(insts) ==
    IF insts = <<>> THEN <<>>
    ELSE EbsVolumeIds(Get(insts[1], "BlockDeviceMappings", <<>>))
         \o CollectVolumeIds(Tail(insts))

\* Every fetched volume attached to the instance, whoever owns it.
VolumeDetailsOfAll(bdms, details) == details

\* Lines 105-110 for one instance: its VolumeDetails dict.
RECURSIVE VolumeDetailsOf(_, _)
VolumeDetailsOf(bdms, details) ==
    IF bdms = <<>> THEN <<>>
    ELSE LET bdm == bdms[1]
             rest == VolumeDetailsOf(Tail(bdms), details)
         IN IF "Ebs" \in DOMAIN bdm /\ bdm.Ebs.VolumeId \in DOMAIN details
            THEN Update(bdm.Ebs.VolumeId :> details[bdm.Ebs.VolumeId], rest)
            ELSE rest

\* Lines 104-110: every instance gets its VolumeDetails key.
Merge(insts, details) ==
    [i \in 1..Len(insts) |->
        Update(insts[i],
               [VolumeDetails |->
                   VolumeDetailsOf(Get(insts[i], "BlockDeviceMappings", <<>>), details)])]

\* Enrich with get_volume_details' try/except missing: a describe_volumes
\* failure reaches the handler of get_ec2_details (line 114), which returns None.
EnrichUnguarded(resp) ==
    LET ids == CollectVolumeIds(instances)
        details == get_volume_details(ids, resp)
        merged == Merge(instances, details)
        failed == VolumeWarning(ids, resp)
    IN /\ all_volume_ids' = ids
       /\ volCalls' = IF ids = <<>> THEN volCalls ELSE Append(volCalls, ids)
       /\ volResponse' = resp
       /\ volume_details' = IF failed THEN volume_details ELSE details
       /\ stdout' = IF failed
                    THEN Append(stdout, "Error retrieving EC2 details: RequestError")
                    ELSE stdout
       /\ instances' = IF failed THEN instances ELSE merged
       /\ result' = IF failed THEN NoResult ELSE [none |-> FALSE, value |-> merged]
       /\ pc' = "returned"
       /\ UNCHANGED <<exception, args, response, report, file>>

\* get_ec2_details, lines 93-112, once describe_volumes (if called) has
\* answered with resp: collect the ids, fetch, merge, return the instances.
Enrich(resp) ==
    LET ids == CollectVolumeIds(instances)
        details == get_volume_details(ids, resp)
        merged == Merge(instances, details)
    IN /\ all_volume_ids' = ids
       /\ volCalls' = IF ids = <<>> THEN volCalls ELSE Append(volCalls, ids)
       /\ volResponse' = resp
       /\ volume_details' = details
       /\ stdout' = IF VolumeWarning(ids, resp)
                    THEN Append(stdout,
                           "Warning: Could not retrieve volume details: "
                           \o (IF resp.raised THEN "RequestError" ELSE "'Size'"))
                    ELSE stdout
       /\ instances' = merged
       /\ result' = [none |-> FALSE, value |-> merged]
       /\ pc' = "returned"
       /\ UNCHANGED <<exception, args, response, report, file>>

\* No instance has an Ebs mapping: get_volume_details returns at line 34
\* without calling describe_volumes.
EnrichWithoutVolumes ==
    /\ pc = "enrich"
    /\ CollectVolumeIds(instances) = <<>>
    /\ Enrich([called |-> FALSE, raised |-> FALSE, Volumes |-> <<>>])

\* describe_volumes answers with a Volumes list.
EnrichVolumesAnswered ==
    /\ pc = "enrich"
    /\ CollectVolumeIds(instances) /= <<>>
    /\ \E volumes \in VolumeLists(CollectVolumeIds(instances)) :
          Enrich([called |-> TRUE, raised |-> FALSE, Volumes |-> volumes])

\* describe_volumes raises (transport error, unknown volume id, ...).
EnrichVolumesRaise ==
    /\ pc = "enrich"
    /\ CollectVolumeIds(instances) /= <<>>
    /\ Enrich([called |-> TRUE, raised |-> TRUE, Volumes |-> <<>>])

-----------------------------------------------------------------------------
(* format_ec2_details *)

RECURSIVE Concat(_)
Concat(seqs) == IF seqs = <<>> THEN <<>> ELSE seqs[1] \o Concat(Tail(seqs))

\* f"{x}" of a bool
BoolText(b) == IF b THEN "True" ELSE "False"

\* Truthiness of instance.get(key): the key is present and not empty.
HasValue(d, key) == key \in DOMAIN d /\ d[key] /= ""

\* The lines of one Ebs mapping when its details are never found.
EbsLinesNeverFound(instance, bdm) ==
    << "  " \o bdm.DeviceName \o ": " \o bdm.Ebs.VolumeId \o " (details unavailable)" >>

\* Lines 163-187: the lines of one Ebs mapping.
EbsLines(instance, bdm) ==
    LET device == bdm.DeviceName
        volume_id == bdm.Ebs.VolumeId
        volume_info == Get(Get(instance, "VolumeDetails", <<>>), volume_id, <<>>)
    IN IF volume_info /= <<>>
       THEN << "  " \o device \o ": " \o volume_id,
               "    Size: " \o Get(volume_info, "Size", "Unknown") \o " GB",
               "    Type: " \o Get(volume_info, "VolumeType", "Unknown"),
               "    State: " \o Get(volume_info, "State", "Unknown"),
               "    Encrypted: " \o BoolText(Get(volume_info, "Encrypted", FALSE)) >>
            \o (IF Get(volume_info, "Iops", "N/A") /= "N/A"
                THEN << "    IOPS: " \o Get(volume_info, "Iops", "N/A") >> ELSE <<>>)
            \o (IF Get(volume_info, "Throughput", "N/A") /= "N/A"
                THEN << "    Throughput: " \o Get(volume_info, "Throughput", "N/A")
                        \o " MB/s" >>
                ELSE <<>>)
       ELSE << "  " \o device \o ": " \o volume_id \o " (details unavailable)" >>

\* Lines 162-191: the lines of one block-device mapping.
MappingLines(instance, bdm) ==
    IF "Ebs" \in DOMAIN bdm THEN EbsLines(instance, bdm)
    ELSE << "  " \o bdm.DeviceName \o ": Instance store volume" >>

\* Lines 153-158: the tags section.
TagLines(instance) ==
    << "\nTags:" >>
    \o (IF "Tags" \in DOMAIN instance
        THEN [t \in 1..Len(instance.Tags) |->
                 "  " \o instance.Tags[t].Key \o ": " \o instance.Tags[t].Value]
        ELSE << "  No tags found" >>)

\* Lines 161-191: the storage section.
StorageLines(instance) ==
    LET bdms == Get(instance, "BlockDeviceMappings", <<>>)
    IN << "\nStorage:" >>
       \o Concat([b \in 1..Len(bdms) |-> MappingLines(instance, bdms[b])])

\* Lines 123-126: the section header, printed when there are several instances.
HeaderLines(i, n) ==
    IF n > 1
    THEN << "\n==================================================",
            "INSTANCE " \o ToString(i) \o " of " \o ToString(n),
            "==================================================" >>
    ELSE <<>>

\* Lines 122-198: everything printed for the i-th of n instances.
InstanceLines(i, n, instance) ==
    HeaderLines(i, n)
    \o << "Instance ID: " \o instance.InstanceId,
          "Instance Type: " \o instance.InstanceType,
          "State: " \o instance.State.Name,
          "Launch Time: " \o Str(instance.LaunchTime),
          "Architecture: " \o instance.Architecture,
          "Platform: " \o Get(instance, "Platform", "Linux/Unix"),
          "\nNetwork Details:",
          "  VPC ID: " \o instance.VpcId,
          "  Subnet ID: " \o instance.SubnetId,
          "  Private IP: " \o instance.PrivateIpAddress >>
    \o (IF HasValue(instance, "PublicIpAddress")
        THEN << "  Public IP: " \o instance.PublicIpAddress >> ELSE <<>>)
    \o << "  Private DNS: " \o instance.PrivateDnsName >>
    \o (IF HasValue(instance, "PublicDnsName")
        THEN << "  Public DNS: " \o instance.PublicDnsName >> ELSE <<>>)
    \o << "\nSecurity Groups:" >>
    \o [g \in 1..Len(instance.SecurityGroups) |->
           "  - " \o instance.SecurityGroups[g].GroupName
           \o " (" \o instance.SecurityGroups[g].GroupId \o ")"]
    \o TagLines(instance)
    \o StorageLines(instance)
    \o << "\nAvailability Zone: " \o instance.Placement.AvailabilityZone >>
    \o (IF HasValue(instance, "KeyName")
        THEN << "Key Pair: " \o instance.KeyName >> ELSE <<>>)

\* Lines 119-198: all lines format_ec2_details prints.
format_ec2_details(insts) ==
    Concat([i \in 1..Len(insts) |-> InstanceLines(i, Len(insts), insts[i])])

-----------------------------------------------------------------------------
(* main: output *)

\* json.dumps(x, default=str) of a datetime x (line 237): default turns it
\* into its text, which is then encoded as a JSON string, quotes included.
JsonDumps(x) == "\"" \o Str(x) \o "\""

\* Line 225: server_name.replace('/', '_').replace('\\', '_'), tabulated on
\* the names of ArgSets.
CleanName(name) == IF name = "db/01" THEN "db_01" ELSE name

\* Lines 224-227
OutputPath(a) ==
    IF Truthy(a.output) THEN a.output
    ELSE "output/" \o CleanName(a.server_name) \o "_details.json"

\* Line 236: args.region or "ap-southeast-2"
EffectiveRegion(region) == IF Truthy(region) THEN region ELSE DefaultRegion

\* Lines 234-240
OutputData(a, insts) ==
    [search_query |-> a.server_name,
     region |-> EffectiveRegion(a.region),
     timestamp |-> JsonDumps(insts[1].LaunchTime),
     instance_count |-> Len(insts),
     instances |-> insts]

\* What json.dump(..., default=str) writes for one instance (line 244): every
\* datetime becomes its text, everything else is kept.
JsonInstance(instance) ==
    Update(instance,
           [LaunchTime |-> Str(instance.LaunchTime),
            VolumeDetails |->
               [v \in DOMAIN instance.VolumeDetails |->
                   Update(instance.VolumeDetails[v],
                          [CreateTime |-> Str(instance.VolumeDetails[v].CreateTime)])]])

\* The content of the file json.dump writes (line 244), as the object a JSON
\* parser reads back.
JsonDump(data) ==
    [search_query |-> data.search_query,
     region |-> data.region,
     timestamp |-> data.timestamp,
     instance_count |-> data.instance_count,
     instances |-> [i \in 1..Len(data.instances) |-> JsonInstance(data.instances[i])]]

\* Lines 250-251
SummaryLines(insts) ==
    [i \in 1..Len(insts) |->
        "  Instance " \o ToString(i) \o ": " \o insts[i].InstanceId
        \o " (" \o insts[i].State.Name \o ")"]

\* main, lines 220-221: get_ec2_details returned None (or nothing).
MainNoInstances ==
    /\ pc = "returned"
    /\ (result.none \/ result.value = <<>>)
    /\ pc' = "done"
    /\ UNCHANGED <<exception, args, response, instances, all_volume_ids, volCalls, volResponse,
                   volume_details, result, stdout, report, file>>

\* Lines 224-227: args with output set to the default path when none was given.
WithOutput(a) == [a EXCEPT !.output = OutputPath(a)]

\* main, lines 224-231: the default output path, then the textual report.
MainHuman ==
    /\ pc = "returned"
    /\ ~(result.none \/ result.value = <<>>)
    /\ args.human
    /\ args' = WithOutput(args)
    /\ report' = format_ec2_details(result.value)
    /\ stdout' = stdout \o format_ec2_details(result.value)
    /\ pc' = "done"
    /\ UNCHANGED <<exception, response, instances, all_volume_ids, volCalls,
                   volResponse, volume_details, result, file>>

\* main, lines 224-251: the default output path, the JSON file and the summary.
MainJson ==
    /\ pc = "returned"
    /\ ~(result.none \/ result.value = <<>>)
    /\ ~args.human
    /\ args' = WithOutput(args)
    /\ file' = [written |-> TRUE, path |-> OutputPath(args),
                data |-> JsonDump(OutputData(args, result.value))]
    /\ stdout' = stdout
          \o << "EC2 details written to: " \o OutputPath(args),
                "Found " \o ToString(Len(result.value)) \o " instance(s)" >>
          \o SummaryLines(result.value)
    /\ pc' = "done"
    /\ UNCHANGED <<exception, response, instances, all_volume_ids, volCalls,
                   volResponse, volume_details, result, report>>

\* main, lines 224-243: open() raises (the code never creates the output/
\* directory of its default path; any path may be unwritable).  The error
\* leaves main: no file is written and lines 246-251 print nothing.
MainJsonOpenFails ==
    /\ pc = "returned"
    /\ ~(result.none \/ result.value = <<>>)
    /\ ~args.human
    /\ args' = WithOutput(args)
    /\ exception' = "OSError"
    /\ pc' = "done"
    /\ UNCHANGED <<response, instances, all_volume_ids, volCalls, volResponse,
                   volume_details, result, stdout, report, file>>

Next ==
    \/ MainStart
    \/ DescribeInstances
    \/ DescribeInstancesRaises
    \/ EnrichWithoutVolumes
    \/ EnrichVolumesAnswered
    \/ EnrichVolumesRaise
    \/ MainNoInstances
    \/ MainHuman
    \/ MainJson
    \/ MainJsonOpenFails

Spec == Init /\ [][Next]_vars

-----------------------------------------------------------------------------
(* format_ec2_details on its own: any list of enriched instances *)

\* The Tags an instance record may carry: the key absent, or a list of no,
\* one or two tags.
TagLists ==
    { <<>>,
      <<[Key |-> "Name", Value |-> "web-01"]>>,
      <<[Key |-> "Name", Value |-> "web-01"], [Key |-> "Env", Value |-> "prod"]>> }

TagChoices ==
    { [present |-> FALSE, tags |-> <<>>] }
    \cup { [present |-> TRUE, tags |-> t] : t \in TagLists }

\* The instance with its Tags key set as chosen, or removed.
WithTags(instance, choice) ==
    IF choice.present
    THEN Update(instance, [Tags |-> choice.tags])
    ELSE [f \in DOMAIN instance \ {"Tags"} |-> instance[f]]

\* The volume_details maps a fetch may have produced.
VolumeDetailMaps ==
    UNION { [S -> {"full", "bare"}] : S \in SUBSET VolIds }

\* The lists of n enriched instances format_ec2_details may be given.
RenderInputs(n) ==
    { Merge([k \in 1..n |-> WithTags(Instance(k, "web-01", bdms[k]), tags[k])],
            [v \in DOMAIN shapes |-> VolumeEntry(VolumeRecord(v, shapes[v]))]) :
        bdms \in [1..n -> BlockDeviceLists],
        tags \in [1..n -> TagChoices],
        shapes \in VolumeDetailMaps }

\* main at line 229 with --human, holding any list of enriched instances.
InitRender ==
    /\ pc = "returned"
    /\ args = [server_name |-> "web-01", region |-> NoneValue,
               output |-> NoneValue, human |-> TRUE]
    /\ response = [raised |-> FALSE, Reservations |-> <<>>]
    /\ \E n \in 1..MaxInstances :
       \E insts \in RenderInputs(n) :
          /\ instances = insts
          /\ result = [none |-> FALSE, value |-> insts]
    /\ all_volume_ids = <<>>
    /\ volCalls = <<>>
    /\ volResponse = [called |-> FALSE, raised |-> FALSE, Volumes |-> <<>>]
    /\ volume_details = <<>>
    /\ stdout = <<>>
    /\ report = <<>>
    /\ file = [written |-> FALSE, path |-> NoneValue, data |-> <<>>]
    /\ exception = NoneValue

SpecRender == InitRender /\ [][MainHuman]_vars

-----------------------------------------------------------------------------
(* Properties *)

\* get_ec2_details has returned to main.
Returned == pc \in {"returned", "done"}

Range(seq) == {seq[i] : i \in 1..Len(seq)}

\* The number of instances in each reservation of the response.
ReservationSizes ==
    [r \in 1..Len(response.Reservations) |-> Len(response.Reservations[r].Instances)]

MatchedCount == SumTo(ReservationSizes, Len(ReservationSizes))

\* The k-th instance of the response, counting reservation by reservation.
Matched(k) ==
    LET r == CHOOSE q \in 1..Len(ReservationSizes) :
                 SumTo(ReservationSizes, q - 1) < k /\ k <= SumTo(ReservationSizes, q)
    IN response.Reservations[r].Instances[k - SumTo(ReservationSizes, r - 1)]

\* The volume ids of the Ebs-backed mappings of an instance.
OwnEbsIds(instance) ==
    { b.Ebs.VolumeId :
        b \in { m \in Range(instance.BlockDeviceMappings) : "Ebs" \in DOMAIN m } }

\* The p-th position of seq, in increasing order, that holds line.
NthPosition(seq, line, p) ==
    CHOOSE x \in 1..Len(seq) :
        /\ seq[x] = line
        /\ Cardinality({y \in 1..(x - 1) : seq[y] = line}) = p - 1

\* The lines of the report between the i-th `from` line and the i-th `to` line.
Section(from, to, i) ==
    SubSeq(report, NthPosition(report, from, i) + 1, NthPosition(report, to, i) - 1)

AvailabilityZoneLine == "\nAvailability Zone: ap-southeast-2a"

\* C1: every volume id is looked up at most once in a run: no describe_volumes
\* call names a volume id twice, and there is at most one such call.
C1_EachVolumeLookedUpOnce ==
    /\ Len(volCalls) <= 1
    /\ \A c \in 1..Len(volCalls) :
         \A i, j \in 1..Len(volCalls[c]) :
            volCalls[c][i] = volCalls[c][j] => i = j

\* C2: a volume whose record cannot be processed does not cost the other
\* volumes their entries: every processable volume of the describe_volumes
\* answer has an entry in volume_details and in the VolumeDetails of every
\* instance it is attached to.
C2_OtherVolumesKeepEntries ==
    (Returned /\ volResponse.called /\ ~volResponse.raised) =>
       \A v \in Range(volResponse.Volumes) :
          Processable(v) =>
             /\ v.VolumeId \in DOMAIN volume_details
             /\ \A i \in 1..Len(result.value) :
                   v.VolumeId \in OwnEbsIds(result.value[i]) =>
                      v.VolumeId \in DOMAIN result.value[i].VolumeDetails

\* C3: when describe_instances matches no instance, get_ec2_details returns
\* None, describe_volumes is never called, no report is rendered and no file
\* is written; main has nothing left to do but return.
C3_NotFoundShortCircuits ==
    (Returned /\ ~response.raised /\ MatchedCount = 0) =>
       /\ result.none
       /\ volCalls = <<>> /\ ~volResponse.called
       /\ report = <<>>
       /\ ~file.written /\ exception = NoneValue
       /\ stdout[Len(stdout)] = "No EC2 instances found with name: " \o args.server_name

C3_Witness ==
    pc = "done" /\ ~response.raised /\ MatchedCount = 0 /\ Len(stdout) = 3

\* C4: when describe_instances raises, get_ec2_details returns None with no
\* instance list, describe_volumes is never called, and main ends without a
\* report or a file.
C4_ResolveFailureIsTerminal ==
    (Returned /\ response.raised) =>
       /\ result.none /\ result.value = <<>> /\ instances = <<>>
       /\ volCalls = <<>> /\ ~volResponse.called
       /\ report = <<>>
       /\ ~file.written /\ exception = NoneValue

C4_Witness ==
    /\ pc = "done" /\ response.raised
    /\ stdout[Len(stdout)] = "Error retrieving EC2 details: RequestError"

\* C5: when describe_volumes raises, volume_details is empty, get_ec2_details
\* still returns one record per matched instance, each with an empty
\* VolumeDetails, and main goes on to its output step (lines 224-244): the
\* report is printed, or the file is written unless open() itself fails.
C5_VolumeFailureDegrades ==
    (Returned /\ volResponse.called /\ volResponse.raised) =>
       /\ volume_details = <<>>
       /\ ~result.none
       /\ Len(result.value) = MatchedCount
       /\ \A k \in 1..MatchedCount :
             /\ result.value[k].InstanceId = Matched(k).InstanceId
             /\ result.value[k].VolumeDetails = <<>>
       /\ pc = "done" =>
             /\ args.output /= NoneValue
             /\ IF args.human THEN report /= <<>>
                ELSE file.written \/ exception = "OSError"

C5_Witness ==
    /\ pc = "done" /\ volResponse.called /\ volResponse.raised
    /\ Len(result.value) = 2 /\ file.written
    /\ file.data.instances[2].VolumeDetails = <<>>

\* C6: after the merge, the keys of each instance's VolumeDetails are exactly
\* the volume ids of its own Ebs mappings that are in volume_details, each
\* mapped to the record fetched for it; instance-store mappings add nothing
\* and only Ebs volume ids are ever requested.
C6_MergeAttachesOwnVolumes ==
    (Returned /\ ~result.none) =>
       /\ \A k \in 1..Len(result.value) :
             /\ DOMAIN result.value[k].VolumeDetails
                   = OwnEbsIds(Matched(k)) \cap DOMAIN volume_details
             /\ \A v \in DOMAIN result.value[k].VolumeDetails :
                   /\ result.value[k].VolumeDetails[v] = volume_details[v]
                   /\ \E r \in Range(volResponse.Volumes) :
                         /\ r.VolumeId = v
                         /\ \A f \in DOMAIN r \ {"VolumeId"} :
                               result.value[k].VolumeDetails[v][f] = r[f]
       /\ \A c \in Range(volCalls) :
             Range(c) = UNION { OwnEbsIds(Matched(k)) : k \in 1..MatchedCount }

C6_Witness ==
    /\ Returned /\ ~result.none /\ Len(result.value) = 2
    /\ result.value[1].BlockDeviceMappings
          = <<EbsMapping("/dev/sda1", "vol-A"), StoreMapping("/dev/sdb")>>
    /\ result.value[2].BlockDeviceMappings = <<EbsMapping("/dev/sda1", "vol-B")>>
    /\ DOMAIN volume_details = {"vol-A", "vol-B"}
    /\ DOMAIN result.value[1].VolumeDetails = {"vol-A"}
    /\ DOMAIN result.value[2].VolumeDetails = {"vol-B"}

\* C7: get_ec2_details returns the instances of the response reservation by
\* reservation, instance by instance, each once and with its fields unaltered;
\* the JSON file lists them in that order and the textual report numbers them
\* in that order.
C7_ResponseOrderPreserved ==
    (Returned /\ ~response.raised /\ MatchedCount > 0) =>
       /\ Len(result.value) = MatchedCount
       /\ \A k \in 1..MatchedCount :
             \A f \in DOMAIN Matched(k) : result.value[k][f] = Matched(k)[f]
       /\ file.written =>
             /\ Len(file.data.instances) = MatchedCount
             /\ \A k \in 1..MatchedCount :
                   file.data.instances[k].InstanceId = Matched(k).InstanceId
       /\ (pc = "done" /\ args.human) =>
             /\ SelectSeq(report,
                          LAMBDA l : l \in {"Instance ID: " \o Matched(k).InstanceId :
                                               k \in 1..MatchedCount})
                   = [k \in 1..MatchedCount |-> "Instance ID: " \o Matched(k).InstanceId]
             /\ MatchedCount > 1 =>
                   \A k \in 1..MatchedCount :
                      LET x == NthPosition(report, "Instance ID: " \o Matched(k).InstanceId, 1)
                      IN report[x - 2] = "INSTANCE " \o ToString(k) \o " of "
                                            \o ToString(MatchedCount)

C7_WitnessFile ==
    /\ pc = "done" /\ file.written
    /\ Len(response.Reservations) = 2
    /\ file.data.instances[1].InstanceId /= file.data.instances[2].InstanceId

\* C8: the JSON file holds the given name, the effective region, the number
\* of instances, the enriched instances, and as timestamp the launch time of
\* the first instance.
C8_StructuredOutputFields ==
    file.written =>
       /\ file.data.search_query = args.server_name
       /\ file.data.region = (IF args.region \in {NoneValue, ""}
                              THEN "ap-southeast-2" ELSE args.region)
       /\ file.data.instance_count = MatchedCount
       /\ Len(file.data.instances) = MatchedCount
       /\ file.data.timestamp = file.data.instances[1].LaunchTime

\* The first lines a block-device mapping can be rendered with.
Devices == {"/dev/sda1", "/dev/sdb", "/dev/sdf"}

FullLine(dev, vid) == "  " \o dev \o ": " \o vid
UnavailableLine(dev, vid) == "  " \o dev \o ": " \o vid \o " (details unavailable)"
StoreLine(dev) == "  " \o dev \o ": Instance store volume"

MappingHeads ==
    {FullLine(d, v) : d \in Devices, v \in VolIds}
    \cup {UnavailableLine(d, v) : d \in Devices, v \in VolIds}
    \cup {StoreLine(d) : d \in Devices}

\* C9: in the report, each block-device mapping is rendered in exactly one of
\* three forms: the volume's fields when it is Ebs-backed and has a
\* VolumeDetails entry, one "(details unavailable)" line when it is Ebs-backed
\* without an entry, one "Instance store volume" line when it is not
\* Ebs-backed.
C9_StorageTriState ==
    (pc = "done" /\ args.human /\ ~result.none) =>
       \A i \in 1..Len(result.value) :
          LET inst == result.value[i]
              bdms == inst.BlockDeviceMappings
              seg == Section("\nStorage:", AvailabilityZoneLine, i)
              heads == { x \in 1..Len(seg) : seg[x] \in MappingHeads }
              head(j) == CHOOSE x \in heads :
                             Cardinality({y \in heads : y < x}) = j - 1
              last(j) == IF j = Len(bdms) THEN Len(seg) ELSE head(j + 1) - 1
          IN /\ Cardinality(heads) = Len(bdms)
             /\ \A j \in 1..Len(bdms) :
                   IF "Ebs" \notin DOMAIN bdms[j]
                   THEN /\ seg[head(j)] = StoreLine(bdms[j].DeviceName)
                        /\ last(j) = head(j)
                   ELSE IF bdms[j].Ebs.VolumeId \notin DOMAIN inst.VolumeDetails
                   THEN /\ seg[head(j)] =
                              UnavailableLine(bdms[j].DeviceName, bdms[j].Ebs.VolumeId)
                        /\ last(j) = head(j)
                   ELSE LET rec == inst.VolumeDetails[bdms[j].Ebs.VolumeId]
                        IN /\ seg[head(j)] =
                                 FullLine(bdms[j].DeviceName, bdms[j].Ebs.VolumeId)
                           /\ last(j) >= head(j) + 4
                           /\ seg[head(j) + 1] = "    Size: " \o rec.Size \o " GB"
                           /\ seg[head(j) + 2] = "    Type: " \o rec.VolumeType
                           /\ seg[head(j) + 3] = "    State: " \o rec.State
                           /\ seg[head(j) + 4] = "    Encrypted: "
                                 \o (IF rec.Encrypted THEN "True" ELSE "False")

C9_Witness ==
    /\ pc = "done" /\ args.human /\ Len(result.value) = 2
    /\ result.value[1].BlockDeviceMappings
          = <<EbsMapping("/dev/sda1", "vol-A"), StoreMapping("/dev/sdb")>>
    /\ result.value[2].BlockDeviceMappings = <<EbsMapping("/dev/sda1", "vol-B")>>
    /\ DOMAIN result.value[1].VolumeDetails = {"vol-A"}
    /\ DOMAIN result.value[2].VolumeDetails = {}
    /\ \E x \in 1..Len(report) : report[x] = UnavailableLine("/dev/sda1", "vol-B")

\* C10: in the report, the tags section of an instance whose tag set is empty
\* is the line "No tags found"; otherwise it holds one line per tag.
C10_NoTagsLine ==
    (pc = "done" /\ args.human /\ ~result.none) =>
       \A i \in 1..Len(result.value) :
          LET inst == result.value[i]
              seg == Section("\nTags:", "\nStorage:", i)
          IN IF "Tags" \notin DOMAIN inst \/ inst.Tags = <<>>
             THEN seg = << "  No tags found" >>
             ELSE seg = [t \in 1..Len(inst.Tags) |->
                            "  " \o inst.Tags[t].Key \o ": " \o inst.Tags[t].Value]

====
